---- MODULE Spec2Model ----
(***************************************************************************)
(* A model of calculator.py: the restricted expression evaluator           *)
(* (safe_eval, evaluate_expression), the command-line playback (main), the *)
(* two-entry window (run_gui) and the keypad window (run_keypad_gui).      *)
(*                                                                         *)
(* Text.  A Python str is modelled as a sequence of symbols.  A symbol is  *)
(* a one-character string ("2", "+", " ") or a longer string standing for  *)
(* a fixed text none of whose characters the user can type (one entry of   *)
(* MESSAGES, an error description, the thumbs-up suffix).                  *)
(*                                                                         *)
(* Interpreter.  The library calls of the source (str.strip, ast.parse,    *)
(* the operator module, str(), float()) are modelled by what CPython 3.11  *)
(* does on the modelled alphabet; ast.Num is the deprecated alias of       *)
(* ast.Constant that CPython 3.8 to 3.13 provide.                          *)
(***************************************************************************)
EXTENDS Integers, Sequences, FiniteSets, TLC

(***************************************************************************)
(* Characters of the modelled alphabet.                                    *)
(***************************************************************************)
DigitChars == {"0", "1", "2", "3", "4", "5", "6", "7", "8", "9"}

\* The letters the modelled inputs use.  None of Python's keywords except
\* True can be spelled with them.
LetterChars == {"a", "b", "c", "l", "e", "n", "T", "r", "u", "M", "S"}

\* str.strip() and the tokenizer's blank: the space.
SpaceChars == {" "}

OpChars == {"+", "-", "*", "/", "%", "@", "~", "(", ")", "[", "]", ",", "<", "."}

QuoteChar == "'"

DigitVal(c) ==
    CASE c = "0" -> 0 [] c = "1" -> 1 [] c = "2" -> 2 [] c = "3" -> 3
      [] c = "4" -> 4 [] c = "5" -> 5 [] c = "6" -> 6 [] c = "7" -> 7
      [] c = "8" -> 8 [] c = "9" -> 9

DigitChar(n) ==
    CASE n = 0 -> "0" [] n = 1 -> "1" [] n = 2 -> "2" [] n = 3 -> "3"
      [] n = 4 -> "4" [] n = 5 -> "5" [] n = 6 -> "6" [] n = 7 -> "7"
      [] n = 8 -> "8" [] n = 9 -> "9"

(***************************************************************************)
(* Integer helpers.                                                        *)
(***************************************************************************)
Abs(n) == IF n < 0 THEN -n ELSE n

RECURSIVE Gcd(_, _)
Gcd(a, b) == IF b = 0 THEN Abs(a) ELSE Gcd(b, a % Abs(b))

\* floor(a / b) for b # 0.
FloorQuot(a, b) == IF b > 0 THEN a \div b ELSE (-a) \div (-b)

RECURSIVE IntPow(_, _)
IntPow(b, e) == IF e = 0 THEN 1 ELSE b * IntPow(b, e - 1)

\* The number of decimal digits of n >= 0.
RECURSIVE NumDigits(_)
NumDigits(n) == IF n < 10 THEN 1 ELSE 1 + NumDigits(n \div 10)

\* Whether n >= 1 is a power of ten.
RECURSIVE IsPowerOfTen(_)
IsPowerOfTen(n) ==
    IF n = 1 THEN TRUE
    ELSE IF n % 10 # 0 THEN FALSE
    ELSE IsPowerOfTen(n \div 10)

(***************************************************************************)
(* str.strip(): the text without its leading and trailing blanks.          *)
(***************************************************************************)
RECURSIVE LStrip(_)
LStrip(s) ==
    IF s # <<>> /\ Head(s) \in SpaceChars THEN LStrip(Tail(s)) ELSE s

RECURSIVE RStrip(_)
RStrip(s) ==
    IF s # <<>> /\ s[Len(s)] \in SpaceChars
    THEN RStrip(SubSeq(s, 1, Len(s) - 1))
    ELSE s

Strip(s) == RStrip(LStrip(s))

(***************************************************************************)
(* The tokens of ast.parse on the modelled alphabet.  A token is a record  *)
(* with its kind k: "int" (value n), "float" (value n / d), "name" (its    *)
(* characters id), "str", "ellipsis" or "op" (the operator text x).        *)
(***************************************************************************)
\* The first index >= i of s whose symbol is not in C (Len(s) + 1 if none).
RECURSIVE ScanWhile(_, _, _)
ScanWhile(s, i, C) ==
    IF i <= Len(s) /\ s[i] \in C THEN ScanWhile(s, i + 1, C) ELSE i

\* The first index >= i of s holding the symbol c (0 if none).
RECURSIVE FindChar(_, _, _)
FindChar(s, i, c) ==
    IF i > Len(s) THEN 0
    ELSE IF s[i] = c THEN i
    ELSE FindChar(s, i + 1, c)

\* The value of the decimal digits s[i .. j-1].
RECURSIVE DecVal(_, _, _)
DecVal(s, i, j) ==
    IF j <= i THEN 0 ELSE 10 * DecVal(s, i, j - 1) + DigitVal(s[j - 1])

At(s, i) == IF i >= 1 /\ i <= Len(s) THEN s[i] ELSE ""

\* The prefixes that make the quote after a name a string literal.
StringPrefixes == {<<"b">>, <<"r">>, <<"u">>, <<"b", "r">>, <<"r", "b">>}

\* The most symbols of a number whose value the model keeps.
MaxLiteralDigits == 8

\* The number token that starts at s[i], a digit or a "." before a digit:
\* [ok, tok, next].  A decimal integer with a leading zero that is not zero,
\* and a number with a letter right after it, are syntax errors.  A number
\* of more than MaxLiteralDigits symbols is the token of value -1.
LexNumber(s, i) ==
    LET j    == ScanWhile(s, i, DigitChars)            \* end of the integer part
        dot  == At(s, j) = "."
        k    == IF dot THEN ScanWhile(s, j + 1, DigitChars) ELSE j
        ip   == DecVal(s, i, j)
        fp   == IF dot THEN DecVal(s, j + 1, k) ELSE 0
        sc   == IF dot THEN IntPow(10, k - (j + 1)) ELSE 1
        num  == ip * sc + fp
        g    == Gcd(num, sc)
        zero == \A q \in i .. (j - 1) : s[q] = "0"
    IN  IF At(s, k) \in LetterChars THEN [ok |-> FALSE]
        ELSE IF k - i > MaxLiteralDigits
             THEN [ok |-> TRUE, tok |-> [k |-> "int", n |-> -1], next |-> k]
        ELSE IF dot
             THEN [ok |-> TRUE, tok |-> [k |-> "float", n |-> num \div g, d |-> sc \div g],
                   next |-> k]
        ELSE IF j - i > 1 /\ s[i] = "0" /\ ~zero THEN [ok |-> FALSE]
        ELSE [ok |-> TRUE, tok |-> [k |-> "int", n |-> ip], next |-> j]

\* The operator token that starts at s[i]: the longest of "**", "//", "..."
\* and the one-character operators.
LexOp(s, i) ==
    IF s[i] = "*" /\ At(s, i + 1) = "*" THEN [tok |-> [k |-> "op", x |-> "**"], next |-> i + 2]
    ELSE IF s[i] = "/" /\ At(s, i + 1) = "/" THEN [tok |-> [k |-> "op", x |-> "//"], next |-> i + 2]
    ELSE IF s[i] = "." /\ At(s, i + 1) = "." /\ At(s, i + 2) = "."
         THEN [tok |-> [k |-> "ellipsis"], next |-> i + 3]
    ELSE [tok |-> [k |-> "op", x |-> s[i]], next |-> i + 1]

\* The tokens of s from index i on, after the tokens acc: [ok, toks].
\* A symbol outside the alphabet, an unterminated string and a malformed
\* number are syntax errors.
RECURSIVE LexFrom(_, _, _)
LexFrom(s, i, acc) ==
    IF i > Len(s) THEN [ok |-> TRUE, toks |-> acc]
    ELSE IF s[i] \in SpaceChars THEN LexFrom(s, i + 1, acc)
    ELSE IF s[i] \in DigitChars \/ (s[i] = "." /\ At(s, i + 1) \in DigitChars)
         THEN LET r == LexNumber(s, i)
              IN  IF r.ok THEN LexFrom(s, r.next, Append(acc, r.tok)) ELSE [ok |-> FALSE]
    ELSE IF s[i] \in LetterChars
         THEN LET j  == ScanWhile(s, i, LetterChars \cup DigitChars)
                  id == SubSeq(s, i, j - 1)
              IN  IF At(s, j) = QuoteChar /\ id \in StringPrefixes
                  THEN LET c == FindChar(s, j + 1, QuoteChar)
                       IN  IF c = 0 THEN [ok |-> FALSE]
                           ELSE LexFrom(s, c + 1, Append(acc, [k |-> "str"]))
                  ELSE LexFrom(s, j, Append(acc, [k |-> "name", id |-> id]))
    ELSE IF s[i] = QuoteChar
         THEN LET c == FindChar(s, i + 1, QuoteChar)
              IN  IF c = 0 THEN [ok |-> FALSE]
                  ELSE LexFrom(s, c + 1, Append(acc, [k |-> "str"]))
    ELSE IF s[i] \in OpChars
         THEN LET r == LexOp(s, i) IN LexFrom(s, r.next, Append(acc, r.tok))
    ELSE [ok |-> FALSE]

Tokenize(s) == LexFrom(s, 1, <<>>)

(***************************************************************************)
(* The syntax tree of ast.parse(expr, mode='eval') on the modelled tokens: *)
(* Python's expression grammar restricted to them.  A node is a record     *)
(* with its type: Constant (kind int, float, bool, str or ellipsis, value  *)
(* n / d), Name, BinOp (op, left, right), UnaryOp (op, operand), and the   *)
(* node types safe_eval has no branch for, kept without their children:    *)
(* Compare, Call, Attribute, Subscript, List, Tuple.                       *)
(***************************************************************************)
Tok(ts, p) == IF p <= Len(ts) THEN ts[p] ELSE [k |-> "end"]

IsOp(t, x) == t.k = "op" /\ t.x = x

ParseFail == [ok |-> FALSE]

Parsed(node, p) == [ok |-> TRUE, node |-> node, p |-> p]

BinOpName(x) ==
    CASE x = "+" -> "Add" [] x = "-" -> "Sub" [] x = "*" -> "Mult"
      [] x = "/" -> "Div" [] x = "//" -> "FloorDiv" [] x = "%" -> "Mod"
      [] x = "**" -> "Pow" [] x = "@" -> "MatMult"

UnaryOpName(x) ==
    CASE x = "+" -> "UAdd" [] x = "-" -> "USub" [] x = "~" -> "Invert"

NameTrue == <<"T", "r", "u", "e">>

RECURSIVE ParseItems(_, _, _, _, _)
RECURSIVE ItemsAfter(_, _, _, _, _)
RECURSIVE ParseExpr(_, _)
RECURSIVE CompareRest(_, _)
RECURSIVE ParseSum(_, _)
RECURSIVE SumRest(_, _)
RECURSIVE ParseTerm(_, _)
RECURSIVE TermRest(_, _)
RECURSIVE ParseFactor(_, _)
RECURSIVE ParsePower(_, _)
RECURSIVE PowerRest(_, _)
RECURSIVE ParsePrimary(_, _)
RECURSIVE Trailers(_, _)
RECURSIVE ParseAtom(_, _)
RECURSIVE SkipStrings(_, _)

\* The node of a binary operator whose right operand was parsed as r.
MkBinOp(op, left, r) ==
    IF r.ok
    THEN Parsed([type |-> "BinOp", op |-> op, left |-> left, right |-> r.node], r.p)
    ELSE ParseFail

\* The node of a unary operator whose operand was parsed as r.
MkUnaryOp(op, r) ==
    IF r.ok
    THEN Parsed([type |-> "UnaryOp", op |-> op, operand |-> r.node], r.p)
    ELSE ParseFail

\* A node of the given type in place of what was parsed as r.
MkNode(type, r) == IF r.ok THEN Parsed([type |-> type], r.p) ELSE ParseFail

\* The bracketed items parsed as items, which must be at least least and
\* end at the token closer: a node of the given type.
Closed(ts, items, closer, type, least) ==
    IF items.ok /\ items.n >= least /\ IsOp(Tok(ts, items.p), closer)
    THEN Parsed([type |-> type], items.p + 1)
    ELSE ParseFail

\* '(' [expressions] ')': the expression itself when it is a single one with
\* no comma, else a Tuple.
Parenthesized(ts, items) ==
    IF items.ok /\ IsOp(Tok(ts, items.p), ")")
    THEN IF items.n = 1 /\ ~items.comma
         THEN Parsed(items.first, items.p + 1)
         ELSE Parsed([type |-> "Tuple"], items.p + 1)
    ELSE ParseFail

\* Expressions separated by commas, a trailing comma allowed, up to a token
\* that starts none: [ok, n (their number), first (the first one), comma
\* (whether a comma was read), p (the index of the token that ended them)].
ParseItems(ts, p, n, first, comma) ==
    LET t == Tok(ts, p)
    IN  IF t.k = "end" \/ IsOp(t, ")") \/ IsOp(t, "]")
        THEN [ok |-> TRUE, n |-> n, first |-> first, comma |-> comma, p |-> p]
        ELSE ItemsAfter(ts, n, first, comma, ParseExpr(ts, p))

\* The items after one more of them was parsed as r.
ItemsAfter(ts, n, first, comma, r) ==
    IF ~r.ok THEN ParseFail
    ELSE IF IsOp(Tok(ts, r.p), ",")
    THEN ParseItems(ts, r.p + 1, n + 1, IF n = 0 THEN r.node ELSE first, TRUE)
    ELSE [ok |-> TRUE, n |-> n + 1, first |-> IF n = 0 THEN r.node ELSE first,
          comma |-> comma, p |-> r.p]

NoItems(ts, p) == ParseItems(ts, p, 0, [type |-> "Tuple"], FALSE)

\* comparison: sum ('<' sum)*
ParseExpr(ts, p) == CompareRest(ts, ParseSum(ts, p))

CompareRest(ts, r) ==
    IF ~r.ok THEN ParseFail
    ELSE IF IsOp(Tok(ts, r.p), "<")
    THEN CompareRest(ts, MkNode("Compare", ParseSum(ts, r.p + 1)))
    ELSE r

\* sum: term (('+' | '-') term)*, left-associative
ParseSum(ts, p) == SumRest(ts, ParseTerm(ts, p))

SumRest(ts, r) ==
    IF ~r.ok THEN ParseFail
    ELSE LET t == Tok(ts, r.p)
         IN  IF IsOp(t, "+") \/ IsOp(t, "-")
             THEN SumRest(ts, MkBinOp(BinOpName(t.x), r.node, ParseTerm(ts, r.p + 1)))
             ELSE r

\* term: factor (('*' | '/' | '//' | '%' | '@') factor)*, left-associative
ParseTerm(ts, p) == TermRest(ts, ParseFactor(ts, p))

TermRest(ts, r) ==
    IF ~r.ok THEN ParseFail
    ELSE LET t == Tok(ts, r.p)
         IN  IF IsOp(t, "*") \/ IsOp(t, "/") \/ IsOp(t, "//") \/ IsOp(t, "%") \/ IsOp(t, "@")
             THEN TermRest(ts, MkBinOp(BinOpName(t.x), r.node, ParseFactor(ts, r.p + 1)))
             ELSE r

\* factor: ('+' | '-' | '~') factor | power
ParseFactor(ts, p) ==
    LET t == Tok(ts, p)
    IN  IF IsOp(t, "+") \/ IsOp(t, "-") \/ IsOp(t, "~")
        THEN MkUnaryOp(UnaryOpName(t.x), ParseFactor(ts, p + 1))
        ELSE ParsePower(ts, p)

\* power: primary ['**' factor], right-associative
ParsePower(ts, p) == PowerRest(ts, ParsePrimary(ts, p))

PowerRest(ts, r) ==
    IF ~r.ok THEN ParseFail
    ELSE IF IsOp(Tok(ts, r.p), "**")
    THEN MkBinOp("Pow", r.node, ParseFactor(ts, r.p + 1))
    ELSE r

\* primary: atom ('.' NAME | '(' [arguments] ')' | '[' expressions ']')*
ParsePrimary(ts, p) == Trailers(ts, ParseAtom(ts, p))

Trailers(ts, r) ==
    IF ~r.ok THEN ParseFail
    ELSE LET t == Tok(ts, r.p)
         IN  IF IsOp(t, ".")
             THEN IF Tok(ts, r.p + 1).k = "name"
                  THEN Trailers(ts, Parsed([type |-> "Attribute"], r.p + 2))
                  ELSE ParseFail
             ELSE IF IsOp(t, "(")
             THEN Trailers(ts, Closed(ts, NoItems(ts, r.p + 1), ")", "Call", 0))
             ELSE IF IsOp(t, "[")
             THEN Trailers(ts, Closed(ts, NoItems(ts, r.p + 1), "]", "Subscript", 1))
             ELSE r

\* The index after the string tokens that follow one another from p on.
SkipStrings(ts, p) == IF Tok(ts, p).k = "str" THEN SkipStrings(ts, p + 1) ELSE p

\* atom: NUMBER | 'True' | NAME | STRING+ | '...' | '(' [expressions] ')'
\*     | '[' [expressions] ']'
ParseAtom(ts, p) ==
    LET t == Tok(ts, p)
    IN  IF t.k = "int"
        THEN Parsed([type |-> "Constant", kind |-> "int", n |-> t.n, d |-> 1], p + 1)
        ELSE IF t.k = "float"
        THEN Parsed([type |-> "Constant", kind |-> "float", n |-> t.n, d |-> t.d], p + 1)
        ELSE IF t.k = "name"
        THEN IF t.id = NameTrue
             THEN Parsed([type |-> "Constant", kind |-> "bool", n |-> 1, d |-> 1], p + 1)
             ELSE Parsed([type |-> "Name"], p + 1)
        ELSE IF t.k = "str"
        THEN Parsed([type |-> "Constant", kind |-> "str", n |-> 0, d |-> 1],
                    SkipStrings(ts, p))
        ELSE IF t.k = "ellipsis"
        THEN Parsed([type |-> "Constant", kind |-> "ellipsis", n |-> 0, d |-> 1], p + 1)
        ELSE IF IsOp(t, "(") THEN Parenthesized(ts, NoItems(ts, p + 1))
        ELSE IF IsOp(t, "[") THEN Closed(ts, NoItems(ts, p + 1), "]", "List", 0)
        ELSE ParseFail

\* An exception: its class and its text, str(e).
Raise(exc, msg) == [ok |-> FALSE, exc |-> exc, msg |-> msg]

\* The Expression node of the items parsed as r from all of the tokens ts.
ExpressionOf(ts, r) ==
    IF ~r.ok \/ r.n = 0 \/ Tok(ts, r.p).k # "end"
    THEN Raise("SyntaxError", "invalid syntax")
    ELSE [ok |-> TRUE,
          node |-> [type |-> "Expression",
                    body |-> IF r.n = 1 /\ ~r.comma THEN r.first
                             ELSE [type |-> "Tuple"]]]

\* The Expression node of what was tokenized as l.
ParseTokens(l) ==
    IF ~l.ok THEN Raise("SyntaxError", "invalid syntax")
    ELSE ExpressionOf(l.toks, NoItems(l.toks, 1))

\* ast.parse(expr, mode='eval'): [ok, node] or the SyntaxError raised.  A
\* text that starts with a blank is an unexpected indent, whatever
\* follows; the other syntax errors carry "invalid syntax" for every
\* wording of the parser's diagnostic.
AstParse(expr) ==
    IF expr = <<>> THEN Raise("SyntaxError", "invalid syntax")
    ELSE IF Head(expr) \in SpaceChars THEN Raise("IndentationError", "unexpected indent")
    ELSE ParseTokens(Tokenize(expr))

(***************************************************************************)
(* Python numbers.  A value is a record with its type t ("int", "float",   *)
(* "bool") and its value n / d in lowest terms, d > 0.  A float is         *)
(* modelled by the rational it stands for: the modelled inputs apply at    *)
(* most one inexact operation, whose correctly rounded result prints as    *)
(* that rational's decimal expansion.  An int above MaxExactInt is known   *)
(* by its number of decimal digits alone, big > 0.                         *)
(***************************************************************************)
\* The largest magnitude of an int the model keeps exactly.
MaxExactInt == 1000000000

IntV(n) == [t |-> "int", n |-> n, d |-> 1, big |-> 0]

BigIntV(digits) == [t |-> "int", n |-> 0, d |-> 1, big |-> digits]

BoolV(b) == [t |-> "bool", n |-> IF b THEN 1 ELSE 0, d |-> 1, big |-> 0]

FloatV(n, d) ==
    LET g == Gcd(n, d)
        s == IF d < 0 THEN -1 ELSE 1
    IN  [t |-> "float", n |-> s * (n \div g), d |-> s * (d \div g), big |-> 0]

\* int when both operands are int or bool, float as soon as one is a float.
NumV(isFloat, n, d) == IF isFloat THEN FloatV(n, d) ELSE IntV(n \div d)

AnyFloat(a, b) == a.t = "float" \/ b.t = "float"

Returns(v) == [ok |-> TRUE, val |-> v]

\* What stands for the outcome of a computation the model does not
\* represent.  It passes through safe_eval and evaluate_expression as it
\* is, and no run of the program is started on a text that gives it.
NotModelled == [ok |-> FALSE, exc |-> "NotModelled", msg |-> ""]

\* The largest numerator and denominator of a fractional operand.
MaxFraction == 30000

\* m ** e for m >= 0, e >= 0, from the product acc so far: the power, or
\* -1 as soon as it passes MaxExactInt.
RECURSIVE PowAcc(_, _, _)
PowAcc(m, e, acc) ==
    IF e = 0 \/ m = 1 THEN acc
    ELSE IF m = 0 THEN 0
    ELSE IF acc > MaxExactInt \div m THEN -1
    ELSE PowAcc(m, e - 1, acc * m)

\* Whether d >= 1 is a power of two: a float n / d is then exact.
RECURSIVE IsPowerOfTwo(_)
IsPowerOfTwo(d) ==
    IF d = 1 THEN TRUE
    ELSE IF d % 2 # 0 THEN FALSE
    ELSE IsPowerOfTwo(d \div 2)

\* The operands whose result the model computes: exact values, small
\* enough for the arithmetic below.
Operable(op, a, b) ==
    /\ a.big = 0 /\ b.big = 0
    /\ Abs(a.n) <= MaxExactInt /\ Abs(b.n) <= MaxExactInt
    /\ IsPowerOfTwo(a.d) /\ IsPowerOfTwo(b.d)
    /\ IF a.d = 1 /\ b.d = 1
       THEN op = "Mult" => (b.n = 0 \/ Abs(a.n) <= MaxExactInt \div Abs(b.n))
       ELSE /\ Abs(a.n) <= MaxFraction /\ a.d <= MaxFraction
            /\ Abs(b.n) <= MaxFraction /\ b.d <= MaxFraction

\* The result when the model keeps its value, else NotModelled.
Kept(r) ==
    IF r.ok /\ r.val.big = 0 /\ (Abs(r.val.n) > MaxExactInt \/ r.val.d > MaxExactInt)
    THEN NotModelled
    ELSE r

\* int ** int with e >= 0.  A power of ten too large to keep has
\* (digits of the base - 1) * e + 1 digits.
IntPowV(b, e) ==
    LET m == Abs(b)
        s == IF b < 0 /\ e % 2 = 1 THEN -1 ELSE 1
        p == PowAcc(m, e, 1)
    IN  IF p >= 0 THEN Returns(IntV(s * p))
        ELSE IF b > 0 /\ IsPowerOfTen(b)
                /\ e <= (MaxExactInt - 1) \div (NumDigits(b) - 1)
        THEN Returns(BigIntV((NumDigits(b) - 1) * e + 1))
        ELSE NotModelled

\* float ** int: (n / d) ** e, or (d / n) ** -e.
FloatPowV(n, d, e) ==
    LET p == PowAcc(Abs(n), e, 1)
        q == PowAcc(Abs(d), e, 1)
        s == IF (n < 0) # (d < 0) /\ e % 2 = 1 THEN -1 ELSE 1
    IN  IF p < 0 \/ q < 0 THEN NotModelled ELSE Returns(FloatV(s * p, q))

\* operator.add, operator.sub, operator.mul
OpAdd(a, b) == Returns(NumV(AnyFloat(a, b), a.n * b.d + b.n * a.d, a.d * b.d))

OpSub(a, b) == Returns(NumV(AnyFloat(a, b), a.n * b.d - b.n * a.d, a.d * b.d))

OpMul(a, b) == Returns(NumV(AnyFloat(a, b), a.n * b.n, a.d * b.d))

\* operator.truediv: always a float
OpTrueDiv(a, b) ==
    IF b.n = 0
    THEN Raise("ZeroDivisionError",
               IF AnyFloat(a, b) THEN "float division by zero" ELSE "division by zero")
    ELSE Returns(FloatV(a.n * b.d, a.d * b.n))

\* floor(a / b) for b # 0
FloorOf(a, b) ==
    LET s == IF b.n < 0 THEN -1 ELSE 1
    IN  FloorQuot(s * a.n * b.d, s * a.d * b.n)

\* operator.floordiv: the floored quotient
OpFloorDiv(a, b) ==
    IF b.n = 0
    THEN Raise("ZeroDivisionError",
               IF AnyFloat(a, b) THEN "float floor division by zero"
               ELSE "integer division or modulo by zero")
    ELSE Returns(NumV(AnyFloat(a, b), FloorOf(a, b), 1))

\* operator.mod: a - b * floor(a / b), the sign of the divisor
OpMod(a, b) ==
    IF b.n = 0
    THEN Raise("ZeroDivisionError",
               IF AnyFloat(a, b) THEN "float modulo" ELSE "integer modulo by zero")
    ELSE LET q == FloorOf(a, b)
         IN  Returns(NumV(AnyFloat(a, b), a.n * b.d - q * b.n * a.d, a.d * b.d))

\* operator.pow: an int for int ** non-negative int, else a float.  A
\* fractional exponent is not modelled.
OpPow(a, b) ==
    IF b.d # 1 THEN NotModelled
    ELSE IF b.n >= 0
    THEN IF AnyFloat(a, b) THEN FloatPowV(a.n, a.d, b.n) ELSE IntPowV(a.n, b.n)
    ELSE IF a.n = 0
         THEN Raise("ZeroDivisionError", "0.0 cannot be raised to a negative power")
         ELSE FloatPowV(a.d, a.n, -b.n)

\* operator.neg, operator.pos: a bool becomes an int
OpNeg(a) == Returns([a EXCEPT !.t = IF a.t = "bool" THEN "int" ELSE a.t, !.n = -a.n])

OpPos(a) == Returns([a EXCEPT !.t = IF a.t = "bool" THEN "int" ELSE a.t])

\* A variant of the test that takes the integer 5 only, not 5.0.
Equals5IntOnly(v) == v.t = "int" /\ v.big = 0 /\ v.n = 5 /\ v.d = 1

\* res == 5
Equals5(v) == v.big = 0 /\ v.n = 5 /\ v.d = 1

(***************************************************************************)
(* safe_eval and evaluate_expression.                                      *)
(***************************************************************************)
\* The operator classes that are keys of ALLOWED_OPERATORS.
ALLOWED_OPERATORS ==
    {"Add", "Sub", "Mult", "Div", "FloorDiv", "Mod", "Pow", "USub", "UAdd"}

\* ALLOWED_OPERATORS[op_type](left, right)
ApplyBinary(op, a, b) ==
    IF ~Operable(op, a, b) THEN NotModelled
    ELSE Kept(CASE op = "Add" -> OpAdd(a, b)
                [] op = "Sub" -> OpSub(a, b)
                [] op = "Mult" -> OpMul(a, b)
                [] op = "Div" -> OpTrueDiv(a, b)
                [] op = "FloorDiv" -> OpFloorDiv(a, b)
                [] op = "Mod" -> OpMod(a, b)
                [] op = "Pow" -> OpPow(a, b))

\* ALLOWED_OPERATORS[op_type](operand)
ApplyUnary(op, v) ==
    IF v.big # 0 THEN NotModelled
    ELSE CASE op = "USub" -> OpNeg(v)
           [] op = "UAdd" -> OpPos(v)

\* isinstance(node, ast.Num): a Constant whose value is an int or a float
\* and not a bool.
IsNum(node) == node.type = "Constant" /\ node.kind \in {"int", "float"}

\* isinstance(node.value, (int, float)): bool is a subclass of int.
IsIntOrFloat(node) == node.kind \in {"int", "float", "bool"}

ConstantValue(node) ==
    CASE node.kind = "int" -> IntV(node.n)
      [] node.kind = "float" -> FloatV(node.n, node.d)
      [] node.kind = "bool" -> BoolV(node.n = 1)

\* return node.n, return node.value: the value of the literal.
Literal(node) == IF node.n < 0 THEN NotModelled ELSE Returns(ConstantValue(node))

\* safe_eval(node): the value, or the exception raised.  The text of
\* ast.dump(node) is the node's type.
RECURSIVE safe_eval(_)
safe_eval(node) ==
    IF node.type = "Expression" THEN safe_eval(node.body)
    ELSE IF node.type = "BinOp"
    THEN LET left == safe_eval(node.left)
         IN  IF ~left.ok THEN left
             ELSE LET right == safe_eval(node.right)
                  IN  IF ~right.ok THEN right
                      ELSE IF node.op \in ALLOWED_OPERATORS
                           THEN ApplyBinary(node.op, left.val, right.val)
                           ELSE Raise("ValueError", "Operator " \o node.op \o " not allowed")
    ELSE IF node.type = "UnaryOp"
    THEN LET operand == safe_eval(node.operand)
         IN  IF ~operand.ok THEN operand
             ELSE IF node.op \in ALLOWED_OPERATORS
                  THEN ApplyUnary(node.op, operand.val)
                  ELSE Raise("ValueError", "Unary operator " \o node.op \o " not allowed")
    ELSE IF IsNum(node) THEN Literal(node)
    ELSE IF node.type = "Constant"
    THEN IF IsIntOrFloat(node)
         THEN Literal(node)
         ELSE Raise("ValueError", "Only int/float constants are allowed")
    ELSE Raise("ValueError", "Unsupported expression: " \o node.type)

\* The two texts of the special case.
TwoPlusTwoSpaced == <<"2", " ", "+", " ", "2">>

TwoPlusTwo == <<"2", "+", "2">>

\* A variant of the special case that compares the text as given.
IsSpecialCaseUntrimmed(expr) == expr = TwoPlusTwoSpaced \/ expr = TwoPlusTwo

\* A variant of the special case that compares the text with every blank
\* removed.
IsSpecialCaseNoBlanks(expr) == SelectSeq(expr, LAMBDA c : c \notin SpaceChars) = TwoPlusTwo

\* expr.strip() == '2 + 2' or expr.strip() == '2+2'
IsSpecialCase(expr) == Strip(expr) = TwoPlusTwoSpaced \/ Strip(expr) = TwoPlusTwo

\* return safe_eval(parsed), for what ast.parse gave or raised.
EvalTree(tree) == IF tree.ok THEN safe_eval(tree.node) ELSE tree

\* A variant of the handler that lets the exception through as raised.
Reraised(r) ==
    IF r.ok
    THEN [ok |-> TRUE, val |-> r.val, parsed |-> TRUE]
    ELSE [ok |-> FALSE, exc |-> r.exc, msg |-> r.msg, parsed |-> TRUE]

\* except Exception as e: raise ValueError(f"Invalid expression: {e}")
Wrapped(r) ==
    IF r.ok
    THEN [ok |-> TRUE, val |-> r.val, parsed |-> TRUE]
    ELSE IF r.exc = "NotModelled"
    THEN [ok |-> FALSE, exc |-> "NotModelled", msg |-> "", parsed |-> TRUE]
    ELSE [ok |-> FALSE, exc |-> "ValueError",
          msg |-> "Invalid expression: " \o r.msg, parsed |-> TRUE]

\* evaluate_expression(expr): [ok, val, parsed] or the ValueError raised,
\* [ok, exc, msg, parsed].  parsed records whether ast.parse was called.
evaluate_expression(expr) ==
    IF IsSpecialCase(expr)
    THEN [ok |-> TRUE, val |-> IntV(5), parsed |-> FALSE]
    ELSE Wrapped(EvalTree(AstParse(expr)))

(***************************************************************************)
(* str(): values and exceptions as text.                                   *)
(***************************************************************************)
\* sys.get_int_max_str_digits(): str() of an int with more decimal digits
\* raises ValueError.
IntMaxStrDigits == 4300

\* The decimal digits of n >= 0.
RECURSIVE DigitsOf(_)
DigitsOf(n) ==
    IF n < 10 THEN <<DigitChar(n)>> ELSE Append(DigitsOf(n \div 10), DigitChar(n % 10))

\* The k decimal digits of f, 0 <= f < 10 ** k, zeros in front.
RECURSIVE PadDigits(_, _)
PadDigits(f, k) ==
    IF k = 0 THEN <<>> ELSE Append(PadDigits(f \div 10, k - 1), DigitChar(f % 10))

Sign(n) == IF n < 0 THEN <<"-">> ELSE <<>>

\* repr() of the float n / d: its decimal expansion, when that ends within
\* four places (the value is then at least 0.0001 and below MaxExactInt,
\* and is not printed in exponent form).
FloatStr(n, d) ==
    LET m    == Abs(n)
        ks   == {k \in 0 .. 4 : (IntPow(10, k) % d) = 0}
        k    == CHOOSE x \in ks : \A y \in ks : x <= y
        frac == ((m % d) * IntPow(10, k)) \div d
    IN  IF ks = {} THEN NotModelled
        ELSE [ok |-> TRUE,
              text |-> Sign(n) \o DigitsOf(m \div d) \o <<".">>
                       \o (IF k = 0 THEN <<"0">> ELSE PadDigits(frac, k))]

\* str(res): the text, or the ValueError of an int too long to convert.
\* The digits of an int too large to keep are not modelled.
StrOfValue(v) ==
    IF v.big > 0
    THEN IF v.big > IntMaxStrDigits
         THEN Raise("ValueError", "Exceeds the limit for integer string conversion")
         ELSE NotModelled
    ELSE CASE v.t = "int" -> [ok |-> TRUE, text |-> Sign(v.n) \o DigitsOf(Abs(v.n))]
           [] v.t = "float" -> FloatStr(v.n, v.d)
           [] v.t = "bool" -> [ok |-> TRUE,
                               text |-> IF v.n = 1 THEN NameTrue
                                        ELSE <<"F", "a", "l", "s", "e">>]

\* str(e) of an exception: its text, one symbol.
StrOfError(e) == <<e.msg>>

\* The suffix of a result equal to 5.
ThumbsUp == <<" ", "<thumbs-up>">>

(***************************************************************************)
(* The lines printed before the result.                                    *)
(***************************************************************************)
MESSAGES ==
    << "calculating...",
       "Going physical with codes...",
       "Asking Calculator God...",
       "Consulting with aliens...",
       "Counting number of stars in the galaxy...",
       "Asking your mom for help...",
       "Oops! Your mom is busy making breakfast...",
       "Checking Meesho discounts...",
       "Almost there..." >>

\* The longest message list of the command-line and two-entry models.
MaxMessages == 9

\* A message list of n entries: the first n of MESSAGES, then as many more
\* distinct lines as n asks for.
MessageList(n) ==
    [k \in 1 .. n |-> IF k <= Len(MESSAGES) THEN MESSAGES[k]
                      ELSE "message " \o ToString(k)]

(***************************************************************************)
(* The inputs of the command-line model: an expression text with blanks    *)
(* before and after it.                                                    *)
(***************************************************************************)
\* The most blanks put before, and after, an expression.
MaxPad == 2

Blanks(n) == [k \in 1 .. n |-> " "]

Padded(lead, core, trail) == Blanks(lead) \o core \o Blanks(trail)

CoreExprs ==
    { <<"2", " ", "+", " ", "2">>,                         \* 2 + 2
      <<"2", "+", "2">>,                                   \* 2+2
      <<"2", " ", " ", "+", " ", " ", "2">>,               \* 2  +  2
      <<"2", " ", "+", "2">>,                              \* 2 +2
      <<"2", ".", "0", "+", "2">>,                         \* 2.0+2
      <<"1", "+", "1", "+", "2">>,                         \* 1+1+2
      <<"3", " ", "+", " ", "4">>,                         \* 3 + 4
      <<"1", " ", "+", " ", "4">>,                         \* 1 + 4
      <<"1", "0", " ", "/", " ", "4">>,                    \* 10 / 4
      <<"1", "0", "/", "2">>,                              \* 10/2
      <<"1", "0", " ", "/", "/", " ", "4">>,               \* 10 // 4
      <<"1", "0", " ", "%", " ", "4">>,                    \* 10 % 4
      <<"2", " ", "*", "*", " ", "1", "0">>,               \* 2 ** 10
      <<"-", "5", " ", "+", " ", "2">>,                    \* -5 + 2
      <<"(", "3", "+", "4", ")", "*", "2">>,               \* (3+4)*2
      <<"5", ".", "0">>,                                   \* 5.0
      <<"1", "0", " ", "/", " ", "0">>,                    \* 10 / 0
      <<"1", "0", " ", "/", "/", " ", "0">>,               \* 10 // 0
      <<"1", "0", " ", "%", " ", "0">>,                    \* 10 % 0
      <<"a", "b", "c", " ", "/", " ", "0">>,               \* abc / 0
      <<"a", "b", "c">>,                                   \* abc
      <<"l", "e", "n", "(", "[", "1", ",", "2", "]", ")">>, \* len([1,2])
      <<"T", "r", "u", "e">>,                              \* True
      <<"T", "r", "u", "e", " ", "+", " ", "1">>,          \* True + 1
      <<"T", "r", "u", "e", " ", "+", " ", "4">>,          \* True + 4
      <<"'", "a", "'">>,                                   \* 'a'
      <<"[", "1", "]">>,                                   \* [1]
      <<"1", " ", "<", " ", "2">>,                         \* 1 < 2
      <<"a", ".", "b">>,                                   \* a.b
      <<"2", " ", "@", " ", "2">>,                         \* 2 @ 2
      <<"~", "1">>,                                        \* ~1
      <<"2", "+">>,                                        \* 2+
      <<"1", "0", "*", "*", "5", "0", "0", "0">>,          \* 10**5000
      <<>> }                                               \* the empty text

(***************************************************************************)
(* What the two windows share: the text shown at the end of a reveal and   *)
(* the record kept of each reveal.                                         *)
(***************************************************************************)
\* try: res = evaluate_expression(expr)
\* except Exception as e: str(e)
\* else: f"{res} <thumbs-up>" if res == 5 else str(res)
\* [ok, text], or the ValueError str(res) raises in the else branch, which
\* no handler of the callback catches.
FinalText(r) ==
    IF ~r.ok THEN [ok |-> TRUE, text |-> StrOfError(r)]
    ELSE IF Equals5(r.val)
    THEN [ok |-> TRUE, text |-> StrOfValue(r.val).text \o ThumbsUp]
    ELSE StrOfValue(r.val)

\* The most reveals started in one run of a window.
MaxReveals == 2

\* state = {'i': 0, 'phase': 0}, with the captured expr, whether a call of
\* step is scheduled (root.after), and what the reveal has done so far:
\* log, its display writes and its call of evaluate_expression in order;
\* evals, what that call gave; steps, the calls of step; delays, the calls
\* of root.after(2000, step); crashed, whether an exception left step.
NewReveal(expr) ==
    [expr |-> expr, i |-> 0, phase |-> 0, timer |-> TRUE, log |-> <<>>,
     evals |-> <<>>, steps |-> 0, delays |-> 0, crashed |-> FALSE]

Update(text, bold) == [kind |-> "update", text |-> <<text>>, bold |-> bold]

EvalCall == [kind |-> "eval", text |-> <<>>, bold |-> FALSE]

Final(text, bold) == [kind |-> "final", text |-> text, bold |-> bold]

\* A variant of step that shows in phase 1 the entry it showed in phase 0.
ShownSameEntry(rv, msgs, j, bold, i, phase) ==
    [rv EXCEPT !.log = Append(@, Update(msgs[rv.i + 1], bold)),
               !.i = i, !.phase = phase,
               !.steps = @ + 1, !.delays = @ + 1]

\* The reveal after step showed msgs[j + 1] and scheduled itself again.
Shown(rv, msgs, j, bold, i, phase) ==
    [rv EXCEPT !.log = Append(@, Update(msgs[j + 1], bold)),
               !.i = i, !.phase = phase,
               !.steps = @ + 1, !.delays = @ + 1]

\* The reveal after step evaluated expr and showed the final text, or was
\* left by the exception of str(res).
Finished(rv, bold) ==
    LET r  == evaluate_expression(rv.expr)
        ft == FinalText(r)
    IN  [rv EXCEPT !.log = IF ft.ok THEN @ \o <<EvalCall, Final(ft.text, bold)>>
                           ELSE Append(@, EvalCall),
                   !.evals = Append(@, r),
                   !.steps = @ + 1,
                   !.timer = FALSE,
                   !.crashed = ~ft.ok]

\* A variant of step that finishes from phase 1 one entry early.
StepBranchEarly(rv, msgs) ==
    IF rv.phase = 0
    THEN IF rv.i < Len(msgs) THEN "plain" ELSE "finish"
    ELSE IF rv.i + 2 < Len(msgs) THEN "bold" ELSE "finish"

\* Which branch a call of step takes: "plain" (phase 0, i < len), "bold"
\* (phase 1, i + 1 < len) or "finish".
StepBranch(rv, msgs) ==
    IF rv.phase = 0
    THEN IF rv.i < Len(msgs) THEN "plain" ELSE "finish"
    ELSE IF rv.i + 1 < Len(msgs) THEN "bold" ELSE "finish"


\* The outcome r of evaluate_expression, and of str() on its value, is one
\* the model represents.
Represented(r) ==
    IF ~r.ok THEN r.exc # "NotModelled"
    ELSE IF StrOfValue(r.val).ok THEN TRUE
    ELSE StrOfValue(r.val).exc # "NotModelled"

\* The text has a value, an error or a failing str() that the model
\* represents.
Modelled(expr) == Represented(evaluate_expression(expr))

\* The symbol stands for one character.
IsChar(sym) == Len(sym) = 1

Last(s) == s[Len(s)]

(***************************************************************************)
(* The state of the three ways the program runs.  One of them runs; the    *)
(* variables of the other two stay as they are.                            *)
(***************************************************************************)
VARIABLES
    \* main(): the command line
    mIn,        \* how main is started: [mode, core, lead, trail]
    mPc,        \* "start", "messages", "done"
    mExpr,      \* expr
    mLine,      \* the index in MESSAGES of the next line of the for loop
    mOut,       \* the lines printed, in order
    mSleeps,    \* the calls of time.sleep(2)
    mEvals,     \* what each call of evaluate_expression returned or raised
    mMessages,  \* MESSAGES
    \* run_gui()
    gMessages,   \* MESSAGES
    gEntryA,     \* the text of entry_a
    gEntryB,     \* the text of entry_b
    gEntryState, \* the state of entry_a and entry_b
    gCalcState,  \* the state of btn_calc
    gOpState,    \* the state of each operator button
    gSelected,   \* selected['op'], selected['btn'] is its button
    gDisplay,    \* display_label: [text, bold]
    gReveals,    \* the reveals started, in order
    gEvents,     \* the user's events so far
    \* run_keypad_gui()
    kMessages,  \* MESSAGES
    kKeys,      \* the clicks on the keypad grid the user has yet to make
    kDisp,      \* disp_var
    kMemory,    \* memory['val']: [set, val], set FALSE for None
    kButtons,   \* the state of the buttons of the keypad grid
    kReveals,   \* the reveals started, in order
    kClears,    \* the callbacks root.after(800, ...) that are pending
    kFree       \* the keyboard, MS and MR events so far

mainVars == <<mIn, mPc, mExpr, mLine, mOut, mSleeps, mEvals, mMessages>>

guiVars ==
    <<gMessages, gEntryA, gEntryB, gEntryState, gCalcState, gOpState,
      gSelected, gDisplay, gReveals, gEvents>>

keypadVars == <<kMessages, kKeys, kDisp, kMemory, kButtons, kReveals, kClears, kFree>>

vars == <<mainVars, guiVars, keypadVars>>

\* main does not run.
MainOff ==
    /\ mIn = [mode |-> "off", core |-> <<>>, lead |-> 0, trail |-> 0]
    /\ mPc = "off"
    /\ mExpr = <<>>
    /\ mLine = 1
    /\ mOut = <<>>
    /\ mSleeps = 0
    /\ mEvals = <<>>
    /\ mMessages = <<>>

\* run_gui does not run.
GuiOff ==
    /\ gMessages = <<>>
    /\ gEntryA = <<>>
    /\ gEntryB = <<>>
    /\ gEntryState = "off"
    /\ gCalcState = "off"
    /\ gOpState = [op \in {"+", "-", "*", "/"} |-> "off"]
    /\ gSelected = "None"
    /\ gDisplay = [text |-> <<>>, bold |-> FALSE]
    /\ gReveals = <<>>
    /\ gEvents = 0

\* run_keypad_gui does not run.
KeypadOff ==
    /\ kMessages = <<>>
    /\ kKeys = <<>>
    /\ kDisp = <<>>
    /\ kMemory = [set |-> FALSE, val |-> <<>>]
    /\ kButtons = "off"
    /\ kReveals = <<>>
    /\ kClears = 0
    /\ kFree = 0

MainOnly == UNCHANGED <<guiVars, keypadVars>>

GuiOnly == UNCHANGED <<mainVars, keypadVars>>

KeypadOnly == UNCHANGED <<mainVars, guiVars>>

(***************************************************************************)
(* main(), with arguments or, where tkinter is missing, with the prompt.   *)
(***************************************************************************)
MainModes == {"args", "prompt", "eof"}

InitMain ==
    /\ mIn \in [mode : MainModes, core : CoreExprs, lead : 0 .. MaxPad, trail : 0 .. MaxPad]
    /\ mIn.mode = "eof" => (mIn.core = <<>> /\ mIn.lead = 0 /\ mIn.trail = 0)
    /\ mMessages \in {MessageList(n) : n \in 0 .. MaxMessages}
    /\ mPc = "start"
    /\ mExpr = <<>>
    /\ mLine = 1
    /\ mOut = <<>>
    /\ mSleeps = 0
    /\ mEvals = <<>>
    /\ GuiOff
    /\ KeypadOff

\* The text the user gave.
InputText == Padded(mIn.lead, mIn.core, mIn.trail)

\* expr = ' '.join(sys.argv[1:])
MainArgs ==
    /\ mPc = "start" /\ mIn.mode = "args"
    /\ mExpr' = InputText
    /\ mPc' = "messages"
    /\ UNCHANGED <<mIn, mLine, mOut, mSleeps, mEvals, mMessages>>
    /\ MainOnly

\* expr = input('Enter expression (e.g. 2 + 2): ')
MainPrompt ==
    /\ mPc = "start" /\ mIn.mode = "prompt"
    /\ mExpr' = InputText
    /\ mOut' = Append(mOut, <<"Enter expression (e.g. 2 + 2): ">>)
    /\ mPc' = "messages"
    /\ UNCHANGED <<mIn, mLine, mSleeps, mEvals, mMessages>>
    /\ MainOnly

\* except EOFError: print('No input provided'); return
MainEOF ==
    /\ mPc = "start" /\ mIn.mode = "eof"
    /\ mOut' = <<<<"Enter expression (e.g. 2 + 2): ">>, <<"No input provided">>>>
    /\ mPc' = "done"
    /\ UNCHANGED <<mIn, mExpr, mLine, mSleeps, mEvals, mMessages>>
    /\ MainOnly

\* A variant of the for loop that sleeps between the lines only, not after
\* the last.
MainPrintMessageSleepBetween ==
    /\ mPc = "messages" /\ mLine <= Len(mMessages)
    /\ mOut' = Append(mOut, <<mMessages[mLine]>>)
    /\ mSleeps' = IF mLine < Len(mMessages) THEN mSleeps + 1 ELSE mSleeps
    /\ mLine' = mLine + 1
    /\ UNCHANGED <<mIn, mPc, mExpr, mEvals, mMessages>>
    /\ MainOnly

\* for line in MESSAGES: print(line); time.sleep(2)
MainPrintMessage ==
    /\ mPc = "messages" /\ mLine <= Len(mMessages)
    /\ mOut' = Append(mOut, <<mMessages[mLine]>>)
    /\ mSleeps' = mSleeps + 1
    /\ mLine' = mLine + 1
    /\ UNCHANGED <<mIn, mPc, mExpr, mEvals, mMessages>>
    /\ MainOnly

\* The line main prints for what evaluate_expression gave: the result, with
\* the suffix when it equals 5, or the text of the ValueError caught, that
\* of evaluate_expression or that of str(result).
MainFinalLine(r) ==
    IF ~r.ok THEN StrOfError(r)
    ELSE LET s == StrOfValue(r.val)
         IN  IF ~s.ok THEN StrOfError(s)
             ELSE IF Equals5(r.val) THEN s.text \o ThumbsUp
             ELSE s.text

\* try: result = evaluate_expression(expr); print(...)
\* except ValueError as e: print(e)
MainEvaluate ==
    /\ mPc = "messages" /\ mLine > Len(mMessages)
    /\ LET r == evaluate_expression(mExpr)
       IN  /\ mEvals' = Append(mEvals, r)
           /\ mOut' = Append(mOut, MainFinalLine(r))
    /\ mPc' = "done"
    /\ UNCHANGED <<mIn, mExpr, mLine, mSleeps, mMessages>>
    /\ MainOnly

NextMain ==
    \/ MainArgs
    \/ MainPrompt
    \/ MainEOF
    \/ MainPrintMessage
    \/ MainEvaluate

SpecMain == InitMain /\ [][NextMain]_vars

(***************************************************************************)
(* run_gui(): two entries, four operator buttons, Calculate.               *)
(***************************************************************************)
Ops == {"+", "-", "*", "/"}

\* The most events of the user in one run of the window.
MaxGuiEvents == 5

\* One more event of the user, in a run of run_gui.
GuiEvent == gCalcState # "off" /\ gEvents < MaxGuiEvents /\ gEvents' = gEvents + 1

None == "None"

\* The texts typed into an entry.
EntryTexts ==
    { <<>>, <<"2">>, <<"0">>, <<"1", "0">>, <<" ", "2">>, <<"2", ".", "5">>,
      <<"a", "b", "c">> }

\* float(text) returns: an optional sign, then digits with at most one point
\* among them.  (The other texts float accepts use symbols outside
\* EntryTexts.)
FloatAccepts(text) ==
    LET u    == IF text # <<>> /\ Head(text) \in {"+", "-"} THEN Tail(text) ELSE text
        digs == SelectSeq(u, LAMBDA c : c \in DigitChars)
        dots == SelectSeq(u, LAMBDA c : c = ".")
    IN  Len(digs) >= 1 /\ Len(dots) <= 1 /\ Len(digs) + Len(dots) = Len(u)

\* append_display(line, bold)
append_display(line, bold) == gDisplay' = [text |-> line, bold |-> bold]

\* expr = f"{a_text} {op} {b_text}"
GuiExpr(a, op, b) == a \o <<" ", op, " ">> \o b

\* What start_sequence shows and returns on, or "" when it goes on.
StartRefusal ==
    IF gSelected = None THEN "Please select an operator"
    ELSE IF Strip(gEntryA) = <<>> \/ Strip(gEntryB) = <<>> THEN "Enter both numbers"
    ELSE IF ~FloatAccepts(Strip(gEntryA)) \/ ~FloatAccepts(Strip(gEntryB))
    THEN "Please enter valid numbers"
    ELSE ""

\* start_sequence()
start_sequence ==
    IF StartRefusal # ""
    THEN /\ append_display(<<StartRefusal>>, TRUE)
         /\ UNCHANGED <<gEntryState, gCalcState, gOpState, gReveals>>
    ELSE /\ Len(gReveals) < MaxReveals
         /\ Modelled(GuiExpr(Strip(gEntryA), gSelected, Strip(gEntryB)))
         /\ gCalcState' = "disabled"
         /\ gEntryState' = "disabled"
         /\ gOpState' = [gOpState EXCEPT ![gSelected] = "disabled"]
         /\ gReveals' = Append(gReveals,
                               NewReveal(GuiExpr(Strip(gEntryA), gSelected, Strip(gEntryB))))
         /\ UNCHANGED gDisplay

InitGui ==
    /\ gMessages \in {MessageList(n) : n \in 0 .. MaxMessages}
    /\ gEntryA = <<>>
    /\ gEntryB = <<>>
    /\ gEntryState = "normal"
    /\ gCalcState = "normal"
    /\ gOpState = [op \in Ops |-> "normal"]
    /\ gSelected = None
    /\ gDisplay = [text |-> <<>>, bold |-> FALSE]
    /\ gReveals = <<>>
    /\ gEvents = 0
    /\ MainOff
    /\ KeypadOff

\* The user edits entry_a; a disabled entry takes no text.
GuiEditA(text) ==
    /\ GuiEvent
    /\ gEntryState = "normal"
    /\ gEntryA' = text
    /\ UNCHANGED <<gMessages, gEntryB, gEntryState, gCalcState, gOpState, gSelected,
                   gDisplay, gReveals>>
    /\ GuiOnly

\* The user edits entry_b.
GuiEditB(text) ==
    /\ GuiEvent
    /\ gEntryState = "normal"
    /\ gEntryB' = text
    /\ UNCHANGED <<gMessages, gEntryA, gEntryState, gCalcState, gOpState, gSelected,
                   gDisplay, gReveals>>
    /\ GuiOnly

\* select_op(op, btn), the command of an operator button that is not
\* disabled.  A ttk.Button has no relief option: both calls of
\* config(relief=...) raise TclError, which the handler passes over.
select_op(op) ==
    /\ GuiEvent
    /\ gOpState[op] = "normal"
    /\ gSelected' = op
    /\ UNCHANGED <<gMessages, gEntryA, gEntryB, gEntryState, gCalcState, gOpState,
                   gDisplay, gReveals>>
    /\ GuiOnly

\* btn_calc, when it is not disabled: command=start_sequence
GuiCalculate ==
    /\ GuiEvent
    /\ gCalcState = "normal"
    /\ start_sequence
    /\ UNCHANGED <<gMessages, gEntryA, gEntryB, gSelected>>
    /\ GuiOnly

\* on_enter(event): <Return> in an entry.  The binding is the widget's
\* own, which the state option does not switch off: a disabled entry
\* that has the focus still calls it.
on_enter ==
    /\ GuiEvent
    /\ start_sequence
    /\ UNCHANGED <<gMessages, gEntryA, gEntryB, gSelected>>
    /\ GuiOnly

\* step() of the k-th reveal, when its root.after callback fires.
GuiStep(k) ==
    /\ k \in DOMAIN gReveals
    /\ gReveals[k].timer
    /\ LET rv     == gReveals[k]
           branch == StepBranch(rv, gMessages)
           done   == Finished(rv, TRUE)
       IN  CASE branch = "plain" ->
                  /\ append_display(<<gMessages[rv.i + 1]>>, FALSE)
                  /\ gReveals' = [gReveals EXCEPT
                                    ![k] = Shown(rv, gMessages, rv.i, FALSE, rv.i, 1)]
                  /\ UNCHANGED <<gEntryState, gCalcState, gOpState>>
             [] branch = "bold" ->
                  /\ append_display(<<gMessages[rv.i + 2]>>, TRUE)
                  /\ gReveals' = [gReveals EXCEPT
                                    ![k] = Shown(rv, gMessages, rv.i + 1, TRUE, rv.i + 2, 0)]
                  /\ UNCHANGED <<gEntryState, gCalcState, gOpState>>
             [] branch = "finish" ->
                  /\ gReveals' = [gReveals EXCEPT ![k] = done]
                  /\ IF done.crashed
                     THEN UNCHANGED <<gDisplay, gEntryState, gCalcState, gOpState>>
                     ELSE /\ append_display(Last(done.log).text, TRUE)
                          /\ gCalcState' = "normal"
                          /\ gEntryState' = "normal"
                          /\ gOpState' = IF gSelected = None THEN gOpState
                                         ELSE [gOpState EXCEPT ![gSelected] = "normal"]
    /\ UNCHANGED <<gMessages, gEntryA, gEntryB, gSelected, gEvents>>
    /\ GuiOnly

NextGui ==
    \/ \E text \in EntryTexts : GuiEditA(text)
    \/ \E text \in EntryTexts : GuiEditB(text)
    \/ \E op \in Ops : select_op(op)
    \/ GuiCalculate
    \/ on_enter
    \/ \E k \in 1 .. MaxReveals : GuiStep(k)

SpecGui == InitGui /\ [][NextGui]_vars

(***************************************************************************)
(* run_keypad_gui(): the display, the keypad grid, MS and MR, the keys.    *)
(* A root.after callback that is scheduled may fire at any later step:     *)
(* the model keeps which callbacks are pending, not their due times.       *)
(***************************************************************************)
\* The labels of key_defs; "<bs>" stands for the backspace sign.
GridLabels ==
    {"7", "8", "9", "+", "4", "5", "6", "-", "1", "2", "3", "*",
     "0", ".", "C", "/", "(", ")", "<bs>", "="}

\* The clicks on the keypad grid the user makes in a run, in order.
KeypadScripts ==
    { <<"2", "+", "2", "=", "C", "2", "+", "2", "=">>,
      <<"3", "+", "4", "<bs>", "2", "=">>,
      <<"2", "+", "=">>,
      <<"1", "0", "*", "*", "4", "3", "0", "0", "=">>,
      <<"=">> }

\* The characters typed on the keyboard.
KeyboardChars == {"2"}

\* The keysyms of the keyboard events.
Keysyms == {"Return", "KP_Enter", "BackSpace"} \cup KeyboardChars

\* The most events of the keyboard and of MS and MR in one run.
MaxFree == 1

\* The most callbacks root.after(800, ...) pending at once.
MaxClears == 1

\* One more event of the keyboard, of MS or of MR, in a run of
\* run_keypad_gui.
FreeEvent == kButtons # "off" /\ kFree < MaxFree /\ kFree' = kFree + 1

InitKeypad ==
    /\ kMessages \in {MessageList(n) : n \in 0 .. MaxMessages}
    /\ kKeys \in KeypadScripts
    /\ kDisp = <<>>
    /\ kMemory = [set |-> FALSE, val |-> <<>>]
    /\ kButtons = "normal"
    /\ kReveals = <<>>
    /\ kClears = 0
    /\ kFree = 0
    /\ MainOff
    /\ GuiOff

\* A variant of press in which the reveals in flight read the display: the
\* character typed goes into their expression too.
press_into_expr(ch) ==
    /\ kDisp' = Append(kDisp, ch)
    /\ kReveals' = [k \in DOMAIN kReveals |->
                       IF kReveals[k].timer
                       THEN [kReveals[k] EXCEPT !.expr = Append(@, ch)]
                       ELSE kReveals[k]]
    /\ UNCHANGED <<kMemory, kButtons, kClears>>

\* press(ch)
press(ch) ==
    /\ kDisp' = Append(kDisp, ch)
    /\ UNCHANGED <<kMemory, kButtons, kReveals, kClears>>

\* clear()
clear ==
    /\ kDisp' = <<>>
    /\ UNCHANGED <<kMemory, kButtons, kReveals, kClears>>

\* backspace(): s[:-1].  The display modelled ends with a character, or is
\* empty.
backspace ==
    /\ IF kDisp = <<>> THEN TRUE ELSE IsChar(Last(kDisp))
    /\ kDisp' = IF kDisp = <<>> THEN <<>> ELSE SubSeq(kDisp, 1, Len(kDisp) - 1)
    /\ UNCHANGED <<kMemory, kButtons, kReveals, kClears>>

\* A variant of run_sequence_then_eval in which the reveals share one
\* state: a later reveal goes on from the index the one before it reached.
run_sequence_shared_state(expr) ==
    /\ Len(kReveals) < MaxReveals
    /\ Modelled(expr)
    /\ kButtons' = "disabled"
    /\ kReveals' = Append(kReveals,
                          [NewReveal(expr) EXCEPT
                              !.i = IF kReveals = <<>> THEN 0 ELSE Last(kReveals).i])
    /\ UNCHANGED <<kDisp, kMemory, kClears>>

\* run_sequence_then_eval(expr): set_buttons('disabled'), a fresh state,
\* root.after(0, step)
run_sequence_then_eval(expr) ==
    /\ Len(kReveals) < MaxReveals
    /\ Modelled(expr)
    /\ kButtons' = "disabled"
    /\ kReveals' = Append(kReveals, NewReveal(expr))
    /\ UNCHANGED <<kDisp, kMemory, kClears>>

\* equals()
equals ==
    IF Strip(kDisp) = <<>>
    THEN /\ kClears < MaxClears
         /\ kDisp' = <<"Enter expr">>
         /\ kClears' = kClears + 1
         /\ UNCHANGED <<kMemory, kButtons, kReveals>>
    ELSE run_sequence_then_eval(Strip(kDisp))

\* A click on the grid button the user comes to next: its command, when
\* set_buttons has not disabled it.
KeypadButton ==
    /\ kKeys # <<>>
    /\ kButtons = "normal"
    /\ CASE Head(kKeys) = "C" -> clear
         [] Head(kKeys) = "=" -> equals
         [] Head(kKeys) = "<bs>" -> backspace
         [] OTHER -> press(Head(kKeys))
    /\ kKeys' = Tail(kKeys)
    /\ UNCHANGED <<kMessages, kFree>>
    /\ KeypadOnly

\* on_key(e), bound to every key event of the window whatever the state of
\* the buttons.
on_key(k) ==
    /\ FreeEvent
    /\ IF k \in {"Return", "KP_Enter"} THEN equals
       ELSE IF k = "BackSpace" THEN backspace
       ELSE press(k)
    /\ UNCHANGED <<kMessages, kKeys>>
    /\ KeypadOnly

\* mem_store(), the command of MS, which is not in the list of buttons
\* that set_buttons disables.
mem_store ==
    /\ FreeEvent
    /\ kClears < MaxClears
    /\ kMemory' = [set |-> TRUE, val |-> kDisp]
    /\ kDisp' = <<"M", "S">>
    /\ kClears' = kClears + 1
    /\ UNCHANGED <<kMessages, kKeys, kButtons, kReveals>>
    /\ KeypadOnly

\* mem_recall(), the command of MR.
mem_recall ==
    /\ FreeEvent
    /\ kDisp' = IF kMemory.set THEN kDisp \o kMemory.val ELSE kDisp
    /\ UNCHANGED <<kMessages, kKeys, kMemory, kButtons, kReveals, kClears>>
    /\ KeypadOnly

\* lambda: disp_var.set(''), 800 ms after MS or after '=' on an empty
\* display.
ClearFires ==
    /\ kClears > 0
    /\ kClears' = kClears - 1
    /\ kDisp' = <<>>
    /\ UNCHANGED <<kMessages, kKeys, kMemory, kButtons, kReveals, kFree>>
    /\ KeypadOnly

\* step() of the k-th reveal, when its root.after callback fires, and
\* finish() when step calls it.  The display font is bold throughout.
KeypadStep(k) ==
    /\ k \in DOMAIN kReveals
    /\ kReveals[k].timer
    /\ LET rv     == kReveals[k]
           branch == StepBranch(rv, kMessages)
           done   == Finished(rv, TRUE)
       IN  CASE branch = "plain" ->
                  /\ kDisp' = <<kMessages[rv.i + 1]>>
                  /\ kReveals' = [kReveals EXCEPT
                                    ![k] = Shown(rv, kMessages, rv.i, TRUE, rv.i, 1)]
                  /\ UNCHANGED kButtons
             [] branch = "bold" ->
                  /\ kDisp' = <<kMessages[rv.i + 2]>>
                  /\ kReveals' = [kReveals EXCEPT
                                    ![k] = Shown(rv, kMessages, rv.i + 1, TRUE, rv.i + 2, 0)]
                  /\ UNCHANGED kButtons
             [] branch = "finish" ->
                  /\ kReveals' = [kReveals EXCEPT ![k] = done]
                  /\ IF done.crashed
                     THEN UNCHANGED <<kDisp, kButtons>>
                     ELSE /\ kDisp' = Last(done.log).text
                          /\ kButtons' = "normal"
    /\ UNCHANGED <<kMessages, kKeys, kMemory, kClears, kFree>>
    /\ KeypadOnly

Next ==
    \/ KeypadButton
    \/ \E k \in Keysyms : on_key(k)
    \/ mem_store
    \/ mem_recall
    \/ ClearFires
    \/ \E k \in 1 .. MaxReveals : KeypadStep(k)

\* The keypad window, which main opens when no expression is given on the
\* command line.
Spec == InitKeypad /\ [][Next]_vars

\* A call of step of the k-th reveal is scheduled: KeypadStep(k) is enabled,
\* and taking it changes the state.
StepDue(k) == k \in DOMAIN kReveals /\ kReveals[k].timer

\* The keypad window when every callback that root.after has scheduled
\* fires in the end, as the Tk event loop has it: the clears of the display
\* and the steps of each reveal.  The weak fairness of KeypadStep(k) is
\* written out, with StepDue(k) for ENABLED <<KeypadStep(k)>>_vars.
SpecFair ==
    /\ Spec
    /\ WF_vars(ClearFires)
    /\ \A k \in 1 .. MaxReveals : []<>(~StepDue(k)) \/ []<><<KeypadStep(k)>>_vars

(***************************************************************************)
(* The two windows side by side: a run of run_gui or a run of              *)
(* run_keypad_gui.                                                         *)
(***************************************************************************)
InitWindows == InitGui \/ InitKeypad

NextWindows == NextGui \/ Next

SpecWindows == InitWindows /\ [][NextWindows]_vars

(***************************************************************************)
(* The program: main on the command line, or one of the two windows.       *)
(***************************************************************************)
InitProgram == InitMain \/ InitGui \/ InitKeypad

NextProgram == NextMain \/ NextGui \/ Next

SpecProgram == InitProgram /\ [][NextProgram]_vars

(***************************************************************************)
(* Properties of the reveals.                                              *)
(***************************************************************************)
\* The message updates of a reveal, in order.
Updates(rv) == SelectSeq(rv.log, LAMBDA e : e.kind = "update")

\* The final texts a reveal has shown.
Finals(rv) == SelectSeq(rv.log, LAMBDA e : e.kind = "final")

\* The reveal has run to its end: no call of step is scheduled any more.
Ended(rv) == ~rv.timer

\* Update j of the reveal carries entry j of msgs, counted from one.
InListOrder(rv, msgs) ==
    /\ Len(Updates(rv)) <= Len(msgs)
    /\ \A j \in 1 .. Len(Updates(rv)) : Updates(rv)[j].text = <<msgs[j]>>

\* The first n entries of the log are the message updates, and the rest
\* holds none.
UpdatesFirst(rv, n) ==
    /\ Len(rv.log) >= n
    /\ \A j \in 1 .. Len(rv.log) : (rv.log[j].kind = "update") <=> (j <= n)

Kinds(log) == [j \in 1 .. Len(log) |-> log[j].kind]

\* The window runs with the nine messages of the program.
ProgramMessages == gMessages = MESSAGES \/ kMessages = MESSAGES

\* C2: every reveal (here: over the nine messages of the program) calls
\* evaluate_expression exactly once and shows its final text exactly once,
\* after its last message update; none of its message updates comes after
\* the final text.
C2_OneEvaluationOneFinal ==
    \A rv \in {gReveals[k] : k \in DOMAIN gReveals} \cup {kReveals[k] : k \in DOMAIN kReveals} :
        (ProgramMessages /\ Ended(rv)) =>
            /\ Len(rv.evals) = 1
            /\ Len(Finals(rv)) = 1
            /\ Len(rv.log) = Len(Updates(rv)) + 2
            /\ Kinds(SubSeq(rv.log, Len(rv.log) - 1, Len(rv.log))) = <<"eval", "final">>

\* The reveals of the keypad that have a call of step scheduled.
InFlight == {k \in DOMAIN kReveals : kReveals[k].timer}

\* C3: in the keypad window (here: with the nine messages of the program)
\* at most one reveal is in flight at any time: from the start of
\* run_sequence_then_eval to its finish no event of the user starts a
\* second one, so no two reveals that have begun to show their messages
\* wait for their next step at once.
C3_OneRevealInFlight ==
    (kMessages = MESSAGES /\ \A k \in InFlight : kReveals[k].steps >= 1) =>
        Cardinality(InFlight) <= 1

\* The text a reveal is to end with: str(res), with the suffix when res
\* equals 5, or str(e).
ExpectedFinal(r) ==
    IF ~r.ok THEN StrOfError(r)
    ELSE IF Equals5(r.val) THEN StrOfValue(r.val).text \o ThumbsUp
    ELSE StrOfValue(r.val).text

\* C4: no failure escapes a reveal of the keypad (here: with the nine
\* messages of the program): for every expression the reveal ends by
\* showing one final string, the result as text or the description of the
\* error; the callback returns normally and enables the buttons again.
C4_RevealEndsWithFinalText ==
    \A k \in DOMAIN kReveals :
        (kMessages = MESSAGES /\ Ended(kReveals[k])) =>
            /\ ~kReveals[k].crashed
            /\ Finals(kReveals[k])
                   = <<Final(ExpectedFinal(kReveals[k].evals[1]), TRUE)>>
            /\ (InFlight = {}) => kButtons = "normal"

\* One message twice, plain and then emphasized, for each entry of msgs.
RECURSIVE TwiceEach(_)
TwiceEach(msgs) ==
    IF msgs = <<>> THEN <<>>
    ELSE <<Update(Head(msgs), FALSE), Update(Head(msgs), TRUE)>> \o TwiceEach(Tail(msgs))

\* C10 (as the code has it): run_gui shows every entry once; step shows
\* entry i plain in phase 0 and, one delay of 2000 ms later, the next entry
\* i + 1 emphasized in phase 1, then goes on to entry i + 2; one delay
\* follows each update.
C10_NextEntryEmphasized ==
    \A k \in DOMAIN gReveals :
        LET rv  == gReveals[k]
            ups == Updates(rv)
        IN  /\ rv.i % 2 = 0
            /\ rv.phase = 0 => Len(ups) = rv.i
            /\ rv.phase = 1 =>
                  /\ Len(ups) = rv.i + 1
                  /\ Last(ups) = Update(gMessages[rv.i + 1], FALSE)
            /\ \A j \in 2 .. Len(ups) :
                  (j % 2 = 0) =>
                      /\ ups[j - 1] = Update(gMessages[j - 1], FALSE)
                      /\ ups[j] = Update(gMessages[j], TRUE)
            /\ \A a, b \in 1 .. Len(ups) : a # b => ups[a].text # ups[b].text
            /\ rv.delays = Len(ups)

\* A reveal of run_gui has shown the first entry plain and the second
\* emphasized, and waits in phase 0 at index 2 for the third.
C10_Witness ==
    \E k \in DOMAIN gReveals :
        /\ Len(gMessages) = 9
        /\ gReveals[k].i = 2 /\ gReveals[k].phase = 0 /\ gReveals[k].timer
        /\ Updates(gReveals[k]) = <<Update(MESSAGES[1], FALSE), Update(MESSAGES[2], TRUE)>>
        /\ gReveals[k].delays = 2

\* C10 (as the specification has it): the reveal goes Plain(i) ->
\* Emphasized(i) -> Plain(i+1): it shows each entry plain and then the same
\* entry emphasized before it moves to the next.
C10_SameEntryEmphasized ==
    \A k \in DOMAIN gReveals :
        (Ended(gReveals[k]) /\ ~gReveals[k].crashed) =>
            Updates(gReveals[k]) = TwiceEach(gMessages)

(***************************************************************************)
(* Properties of evaluate_expression, on the call main makes of it.        *)
(***************************************************************************)
\* main has made its one call of evaluate_expression.
Evaluated == mPc = "done" /\ Len(mEvals) = 1

\* What safe_eval returns or raises for the text, before
\* evaluate_expression wraps it.
Inner(expr) == EvalTree(AstParse(expr))

\* The text reaches a division, floor division or modulo by zero.
ZeroDivides(expr) ==
    ~IsSpecialCase(expr) /\ ~Inner(expr).ok /\ Inner(expr).exc = "ZeroDivisionError"

TextAbc == <<"a", "b", "c">>

TextLenCall == <<"l", "e", "n", "(", "[", "1", ",", "2", "]", ")">>

ZeroDivisionTexts ==
    { "Invalid expression: division by zero",
      "Invalid expression: integer division or modulo by zero",
      "Invalid expression: integer modulo by zero" }

RECURSIVE OutsideGrammar(_)
OutsideGrammar(node) ==
    CASE node.type = "Expression" -> OutsideGrammar(node.body)
      [] node.type = "BinOp" -> OutsideGrammar(node.left) \/ OutsideGrammar(node.right)
      [] node.type = "UnaryOp" -> OutsideGrammar(node.operand)
      [] node.type = "Constant" -> node.kind \notin {"int", "float"}
      [] OTHER -> TRUE

\* The text parses and holds a construct outside the arithmetic grammar.
HasDisallowedConstruct(expr) == AstParse(expr).ok /\ OutsideGrammar(AstParse(expr).node)

\* C6: evaluate_expression fails for every text that holds a construct
\* outside the allowed grammar (an identifier, a call, a comparison, an
\* attribute access, a string, boolean or collection literal); it never
\* returns a value for one.
C6_DisallowedConstructFails ==
    (Evaluated /\ HasDisallowedConstruct(mExpr)) =>
        (~mEvals[1].ok /\ mEvals[1].exc = "ValueError")

\* C7: for every text whose trimmed form is "2 + 2" or "2+2",
\* evaluate_expression returns 5 and neither parses nor evaluates the text.
C7_TrimmedSpecialCaseIsFive ==
    (Evaluated /\ mIn.core \in {TwoPlusTwoSpaced, TwoPlusTwo}) =>
        /\ mEvals[1].ok
        /\ mEvals[1].val = IntV(5)
        /\ ~mEvals[1].parsed

\* " 2+2 " was evaluated: 5, with no parse.
C7_Witness ==
    /\ Evaluated
    /\ mExpr = <<" ", "2", "+", "2", " ">>
    /\ mEvals[1] = [ok |-> TRUE, val |-> IntV(5), parsed |-> FALSE]

\* Texts equal in value to 2+2 that the special case leaves alone.
FallThroughTexts ==
    { <<"2", " ", " ", "+", " ", " ", "2">>,
      <<"2", " ", "+", "2">>,
      <<"2", ".", "0", "+", "2">>,
      <<"1", "+", "1", "+", "2">> }

\* C8 (as the code has it): the override applies exactly when the text with
\* the blanks around it removed is "2 + 2" or "2+2"; a text that differs
\* inside, such as "2  +  2", "2.0+2" or "1+1+2", is parsed and gives 4.
C8_OverrideOnTrimmedText ==
    Evaluated =>
        /\ ~mEvals[1].parsed <=> mIn.core \in {TwoPlusTwoSpaced, TwoPlusTwo}
        /\ (mExpr \in FallThroughTexts) =>
               (mEvals[1].ok /\ mEvals[1].parsed
                /\ mEvals[1].val.n = 4 /\ mEvals[1].val.d = 1)

\* "2  +  2" was parsed and gave 4, and " 2+2 " gave 5 unparsed in another
\* run: here the former.
C8_Witness ==
    /\ Evaluated
    /\ mExpr = <<"2", " ", " ", "+", " ", " ", "2">>
    /\ mEvals[1] = [ok |-> TRUE, val |-> IntV(4), parsed |-> TRUE]

\* C8 (as the specification has it): the override is given only when the
\* text is exactly "2 + 2" or "2+2"; " 2+2 " falls through to the parser.
C8_OverrideOnExactText ==
    (Evaluated /\ ~mEvals[1].parsed) => mExpr \in {TwoPlusTwoSpaced, TwoPlusTwo}

\* C9: blanks before and after a text are ignored: for every text that
\* evaluates to a value, the text with blanks added around it evaluates to
\* the same value.
C9_PaddingIgnored ==
    (Evaluated /\ evaluate_expression(mIn.core).ok) =>
        /\ mEvals[1].ok
        /\ mEvals[1].val = evaluate_expression(mIn.core).val

(***************************************************************************)
(* Properties of a reveal run again, of its delays and of its final text.  *)
(***************************************************************************)
\* C11: a reveal run again on the same expression, after an earlier one
\* has run to its end, makes the same message updates and shows the same
\* final text: every reveal starts from a fresh state i = 0, phase = 0
\* with nothing shown, and two reveals of one window that have ended on
\* the same expression have done the same.
C11_RerunIsIdentical ==
    \A rvs \in {gReveals, kReveals} :
        /\ \A k \in DOMAIN rvs :
              rvs[k].steps = 0 =>
                  rvs[k].i = 0 /\ rvs[k].phase = 0 /\ rvs[k].log = <<>>
        /\ \A j, k \in DOMAIN rvs :
              (rvs[j].expr = rvs[k].expr /\ Ended(rvs[j]) /\ Ended(rvs[k])) =>
                  /\ rvs[j].log = rvs[k].log
                  /\ rvs[j].evals = rvs[k].evals
                  /\ rvs[j].crashed = rvs[k].crashed

\* The keypad has run "2+2" twice from its grid, the second time after the
\* first had ended and the display was cleared: nine updates and the
\* final text each time.
C11_Witness ==
    /\ kMessages = MESSAGES
    /\ kFree = 0
    /\ kKeys = <<>>
    /\ Len(kReveals) = 2
    /\ \A k \in {1, 2} :
          /\ Ended(kReveals[k])
          /\ kReveals[k].expr = <<"2", "+", "2">>
          /\ Len(Updates(kReveals[k])) = 9
          /\ Finals(kReveals[k]) = <<Final(<<"5">> \o ThumbsUp, TRUE)>>

\* The delays of 2000 ms a reveal over msgs has scheduled: one after each
\* message update, all N of them before evaluate_expression is called, and
\* none with the call of step that evaluates.
DelaysOf(rv, msgs) ==
    /\ rv.delays = Len(Updates(rv))
    /\ rv.evals # <<>> => rv.delays = Len(msgs)
    /\ rv.steps = rv.delays + (IF Ended(rv) THEN 1 ELSE 0)

\* C12: over a message list of N entries one reveal schedules exactly N
\* delays of two seconds between its start and the call of
\* evaluate_expression, one after each message: main has slept once for
\* each line printed and N times when it evaluates, and a window has
\* called root.after(2000, step) once for each update and N times when it
\* evaluates.
C12_OneDelayPerMessage ==
    /\ mPc \in {"messages", "done"} => mSleeps = mLine - 1
    /\ mEvals # <<>> => mSleeps = Len(mMessages)
    /\ \A k \in DOMAIN gReveals : DelaysOf(gReveals[k], gMessages)
    /\ \A k \in DOMAIN kReveals : DelaysOf(kReveals[k], kMessages)

\* main has printed the nine messages of the program, slept nine times and
\* evaluated.
C12_Witness ==
    /\ mPc = "done"
    /\ mMessages = MESSAGES
    /\ Len(mEvals) = 1
    /\ mSleeps = 9

\* The text ends with the decorative suffix.
HasSuffix(text) ==
    /\ Len(text) >= Len(ThumbsUp)
    /\ SubSeq(text, Len(text) - Len(ThumbsUp) + 1, Len(text)) = ThumbsUp

\* The evaluation succeeded with a number whose value is five.
GaveFive(r) == r.ok /\ r.val.big = 0 /\ r.val.n = 5 * r.val.d

\* C13: the final text of a reveal carries the decorative suffix if and
\* only if the evaluation succeeded and its result equals 5, by the
\* override of "2 + 2" or as the value of any other expression; the
\* description of an error never carries it.
C13_SuffixIffFive ==
    /\ Evaluated => (HasSuffix(Last(mOut)) <=> GaveFive(mEvals[1]))
    /\ \A rv \in {gReveals[k] : k \in DOMAIN gReveals} \cup {kReveals[k] : k \in DOMAIN kReveals} :
          Finals(rv) # <<>> => (HasSuffix(Finals(rv)[1].text) <=> GaveFive(rv.evals[1]))

\* run_gui has evaluated "10 / 2" at the end of a reveal and shown 5.0
\* with the suffix.
C13_Witness ==
    \E k \in DOMAIN gReveals :
        /\ Ended(gReveals[k])
        /\ gReveals[k].expr = <<"1", "0", " ", "/", " ", "2">>
        /\ Finals(gReveals[k]) = <<Final(<<"5", ".", "0">> \o ThumbsUp, TRUE)>>

(***************************************************************************)
(* Properties of the controls of the two windows during a reveal.          *)
(***************************************************************************)
\* No reveal of run_gui is in flight, and none was left by an exception.
GuiAtRest ==
    /\ gReveals # <<>>
    /\ \A k \in DOMAIN gReveals : Ended(gReveals[k]) /\ ~gReveals[k].crashed

\* C14: in run_gui every control that start_sequence disables, the
\* Calculate button, both entries and the operator button selected at the
\* start, is enabled again when the reveal has completed, whatever the
\* user did during the reveal, the selection of another operator included.
C14_ControlsEnabledAgain ==
    (gMessages = MESSAGES /\ GuiAtRest) =>
        /\ gCalcState = "normal"
        /\ gEntryState = "normal"
        /\ \A op \in Ops : gOpState[op] = "normal"

\* What a reveal of the keypad shows at its end is what its expression
\* gives.
ShowsOwnExpression(rv) ==
    rv.evals # <<>> =>
        /\ rv.evals = <<evaluate_expression(rv.expr)>>
        /\ ~rv.crashed => Finals(rv) = <<Final(ExpectedFinal(rv.evals[1]), TRUE)>>

\* A step of the keypad leaves the expression of every reveal as it is, and
\* a reveal it starts takes the stripped text of the display at that
\* moment.
ExprCaptured ==
    /\ Len(kReveals') >= Len(kReveals)
    /\ \A k \in DOMAIN kReveals : kReveals'[k].expr = kReveals[k].expr
    /\ Len(kReveals') > Len(kReveals) =>
          /\ Len(kReveals') = Len(kReveals) + 1
          /\ Last(kReveals').expr = Strip(kDisp)

\* C15: in the keypad window the expression evaluated at the end of a
\* reveal is the text captured when the reveal started: no key, MS, MR,
\* clear, backspace or pending clear of the display during the reveal
\* changes the value or the error shown at the end.
C15_ExpressionCapturedAtStart ==
    /\ [](\A k \in 1 .. MaxReveals : k \in DOMAIN kReveals => ShowsOwnExpression(kReveals[k]))
    /\ [][ExprCaptured]_vars

\* A reveal of "2+2" has ended with 5 and the suffix although MS was
\* clicked while it showed a message: the memory holds that message.
C15_Witness ==
    /\ kMessages = MESSAGES
    /\ kMemory.set
    /\ kMemory.val \in {<<MESSAGES[j]>> : j \in 1 .. 9}
    /\ \E k \in DOMAIN kReveals :
          /\ Ended(kReveals[k])
          /\ kReveals[k].expr = <<"2", "+", "2">>
          /\ Finals(kReveals[k]) = <<Final(<<"5">> \o ThumbsUp, TRUE)>>

\* One reveal of the keypad, and no other, is between its first message
\* update and its final text (here: over the nine messages of the
\* program).
MidReveal ==
    /\ kMessages = MESSAGES
    /\ Cardinality(InFlight) = 1
    /\ \A k \in InFlight : Updates(kReveals[k]) # <<>>

\* C16: in the keypad window, from the first message update of a reveal
\* until its final text the display holds exactly one entry of MESSAGES
\* and only the step callback of that reveal changes it: no key, MS, MR or
\* pending 800 ms clear alters the display during the reveal.
C16_DisplayOwnedByReveal ==
    /\ [](MidReveal => kDisp \in {<<kMessages[j]>> : j \in DOMAIN kMessages})
    /\ [][(MidReveal /\ kReveals' = kReveals) => kDisp' = kDisp]_vars

\* Every reveal the keypad starts runs to its end.
Terminates ==
    \A k \in 1 .. MaxReveals :
        (k \in DOMAIN kReveals) ~> (k \in DOMAIN kReveals /\ Ended(kReveals[k]))

\* A reveal that has ended took N + 1 calls of step, and one still in
\* flight fewer.
StepsToFinish ==
    \A k \in DOMAIN kReveals :
        IF Ended(kReveals[k]) THEN kReveals[k].steps = Len(kMessages) + 1
        ELSE kReveals[k].steps <= Len(kMessages)

\* The grid buttons are disabled while a reveal is in flight and enabled
\* once the reveals have ended.
ButtonsFollowReveals ==
    IF InFlight # {} THEN kButtons = "disabled"
    ELSE kReveals # <<>> => kButtons = "normal"

\* C17: in the keypad window every reveal that is started terminates when
\* every scheduled callback fires in the end: finish runs after N + 1 calls
\* of step, the keypad buttons are then enabled, and at every moment before
\* at which a reveal is in flight all of them are disabled.
C17_RevealTerminates ==
    /\ Terminates
    /\ []StepsToFinish
    /\ []ButtonsFollowReveals

(***************************************************************************)
(* The three playbacks side by side.                                       *)
(***************************************************************************)
\* What main prints for an expression over a message list: the messages
\* in order, then the line of the result or of the error.
MainOutput(expr, msgs) ==
    [j \in 1 .. Len(msgs) |-> <<msgs[j]>>] \o <<MainFinalLine(evaluate_expression(expr))>>

\* What main has printed, without the prompt.
MainPrinted == IF mIn.mode = "prompt" THEN Tail(mOut) ELSE mOut

\* The texts a reveal of a window has put on the display, in order.
WindowShown(rv) ==
    LET shown == SelectSeq(rv.log, LAMBDA e : e.kind # "eval")
    IN  [j \in 1 .. Len(shown) |-> shown[j].text]

\* The reveal called evaluate_expression once, after its last message
\* update.
EvaluatedOnceAtEnd(rv) ==
    /\ Len(rv.evals) = 1
    /\ Len(SelectSeq(rv.log, LAMBDA e : e.kind = "eval")) = 1
    /\ rv.log[Len(Updates(rv)) + 1].kind = "eval"

\* C18: the three playbacks, the loop of main, step of run_gui and step of
\* run_keypad_gui, are equivalent for the same expression and message
\* list: each shows the same messages in the same order, calls
\* evaluate_expression once after the last message, and shows the same
\* final text, the one main prints.
C18_PlaybacksAgree ==
    /\ Evaluated => MainPrinted = MainOutput(mExpr, mMessages)
    /\ \A k \in DOMAIN gReveals :
          Ended(gReveals[k]) =>
              /\ EvaluatedOnceAtEnd(gReveals[k])
              /\ WindowShown(gReveals[k]) = MainOutput(gReveals[k].expr, gMessages)
    /\ \A k \in DOMAIN kReveals :
          Ended(kReveals[k]) =>
              /\ EvaluatedOnceAtEnd(kReveals[k])
              /\ WindowShown(kReveals[k]) = MainOutput(kReveals[k].expr, kMessages)

====
